---------------------------- MODULE Spec2Model ----------------------------
(***************************************************************************)
(* Image gallery (script.js): filter / search / sort engine, paginated     *)
(* grid, lightbox with slideshow, favorites with localStorage persistence, *)
(* favorites sidebar.  Text is modelled as sequences of character codes so *)
(* that trimming, lower-casing and substring search are computed.          *)
(***************************************************************************)
EXTENDS Integers, Sequences, FiniteSets

(* ------------------------------ Catalog ------------------------------- *)
\* The sample data of lines 17-39, in source order.
SAMPLE_IMAGES ==
  \* 1: "Misty Forest" / "Morning mist in evergreen forest." / nature / 2024-11-05 / 80
  << [id |-> "1", title |-> <<77,105,115,116,121,32,70,111,114,101,115,116>>,
      description |-> <<77,111,114,110,105,110,103,32,109,105,115,116,32,105,110,32,101,118,101,114,103,114,101,101,110,32,102,111,114,101,115,116,46>>,
      category |-> <<110,97,116,117,114,101>>, date |-> <<2024,11,5>>, popularity |-> 80],
  \* 2: "Desert Road" / "Lonely road through sand dunes." / travel / 2025-01-12 / 54
     [id |-> "2", title |-> <<68,101,115,101,114,116,32,82,111,97,100>>,
      description |-> <<76,111,110,101,108,121,32,114,111,97,100,32,116,104,114,111,117,103,104,32,115,97,110,100,32,100,117,110,101,115,46>>,
      category |-> <<116,114,97,118,101,108>>, date |-> <<2025,1,12>>, popularity |-> 54],
  \* 3: "City Sunrise" / "Sunrise hitting skyscrapers." / architecture / 2023-08-21 / 120
     [id |-> "3", title |-> <<67,105,116,121,32,83,117,110,114,105,115,101>>,
      description |-> <<83,117,110,114,105,115,101,32,104,105,116,116,105,110,103,32,115,107,121,115,99,114,97,112,101,114,115,46>>,
      category |-> <<97,114,99,104,105,116,101,99,116,117,114,101>>, date |-> <<2023,8,21>>, popularity |-> 120],
  \* 4: "Street Food Cart" / "Spicy evening snacks." / food / 2024-02-10 / 63
     [id |-> "4", title |-> <<83,116,114,101,101,116,32,70,111,111,100,32,67,97,114,116>>,
      description |-> <<83,112,105,99,121,32,101,118,101,110,105,110,103,32,115,110,97,99,107,115,46>>,
      category |-> <<102,111,111,100>>, date |-> <<2024,2,10>>, popularity |-> 63],
  \* 5: "Mountain Lake" / "Crystal lake reflection." / nature / 2025-03-03 / 145
     [id |-> "5", title |-> <<77,111,117,110,116,97,105,110,32,76,97,107,101>>,
      description |-> <<67,114,121,115,116,97,108,32,108,97,107,101,32,114,101,102,108,101,99,116,105,111,110,46>>,
      category |-> <<110,97,116,117,114,101>>, date |-> <<2025,3,3>>, popularity |-> 145],
  \* 6: "Vintage Train" / "Old steam engine at station." / travel / 2022-12-01 / 42
     [id |-> "6", title |-> <<86,105,110,116,97,103,101,32,84,114,97,105,110>>,
      description |-> <<79,108,100,32,115,116,101,97,109,32,101,110,103,105,110,101,32,97,116,32,115,116,97,116,105,111,110,46>>,
      category |-> <<116,114,97,118,101,108>>, date |-> <<2022,12,1>>, popularity |-> 42],
  \* 7: "Smiling Child" / "Candid street portrait." / people / 2024-06-18 / 99
     [id |-> "7", title |-> <<83,109,105,108,105,110,103,32,67,104,105,108,100>>,
      description |-> <<67,97,110,100,105,100,32,115,116,114,101,101,116,32,112,111,114,116,114,97,105,116,46>>,
      category |-> <<112,101,111,112,108,101>>, date |-> <<2024,6,18>>, popularity |-> 99],
  \* 8: "Blueberry Tart" / "Fresh dessert close-up." / food / 2025-05-02 / 77
     [id |-> "8", title |-> <<66,108,117,101,98,101,114,114,121,32,84,97,114,116>>,
      description |-> <<70,114,101,115,104,32,100,101,115,115,101,114,116,32,99,108,111,115,101,45,117,112,46>>,
      category |-> <<102,111,111,100>>, date |-> <<2025,5,2>>, popularity |-> 77],
  \* 9: "Old Bridge" / "Historic stone bridge." / architecture / 2023-10-10 / 58
     [id |-> "9", title |-> <<79,108,100,32,66,114,105,100,103,101>>,
      description |-> <<72,105,115,116,111,114,105,99,32,115,116,111,110,101,32,98,114,105,100,103,101,46>>,
      category |-> <<97,114,99,104,105,116,101,99,116,117,114,101>>, date |-> <<2023,10,10>>, popularity |-> 58],
  \* 10: "Coastal Cliffs" / "Waves crash on cliffs." / nature / 2025-07-08 / 200
     [id |-> "10", title |-> <<67,111,97,115,116,97,108,32,67,108,105,102,102,115>>,
      description |-> <<87,97,118,101,115,32,99,114,97,115,104,32,111,110,32,99,108,105,102,102,115,46>>,
      category |-> <<110,97,116,117,114,101>>, date |-> <<2025,7,8>>, popularity |-> 200],
  \* 11: "Neon Alley" / "Nightlife in the city." / travel / 2024-09-09 / 88
     [id |-> "11", title |-> <<78,101,111,110,32,65,108,108,101,121>>,
      description |-> <<78,105,103,104,116,108,105,102,101,32,105,110,32,116,104,101,32,99,105,116,121,46>>,
      category |-> <<116,114,97,118,101,108>>, date |-> <<2024,9,9>>, popularity |-> 88],
  \* 12: "Portrait in Window Light" / "Soft natural light portrait." / people / 2023-05-06 / 110
     [id |-> "12", title |-> <<80,111,114,116,114,97,105,116,32,105,110,32,87,105,110,100,111,119,32,76,105,103,104,116>>,
      description |-> <<83,111,102,116,32,110,97,116,117,114,97,108,32,108,105,103,104,116,32,112,111,114,116,114,97,105,116,46>>,
      category |-> <<112,101,111,112,108,101>>, date |-> <<2023,5,6>>, popularity |-> 110],
  \* 13: "Rooftop Cafe" / "Coffee with city view." / travel / 2025-02-14 / 67
     [id |-> "13", title |-> <<82,111,111,102,116,111,112,32,67,97,102,101>>,
      description |-> <<67,111,102,102,101,101,32,119,105,116,104,32,99,105,116,121,32,118,105,101,119,46>>,
      category |-> <<116,114,97,118,101,108>>, date |-> <<2025,2,14>>, popularity |-> 67],
  \* 14: "Autumn Path" / "Leaves on a quiet path." / nature / 2022-10-11 / 47
     [id |-> "14", title |-> <<65,117,116,117,109,110,32,80,97,116,104>>,
      description |-> <<76,101,97,118,101,115,32,111,110,32,97,32,113,117,105,101,116,32,112,97,116,104,46>>,
      category |-> <<110,97,116,117,114,101>>, date |-> <<2022,10,11>>, popularity |-> 47],
  \* 15: "Modern Lobby" / "Minimal building lobby." / architecture / 2025-06-25 / 33
     [id |-> "15", title |-> <<77,111,100,101,114,110,32,76,111,98,98,121>>,
      description |-> <<77,105,110,105,109,97,108,32,98,117,105,108,100,105,110,103,32,108,111,98,98,121,46>>,
      category |-> <<97,114,99,104,105,116,101,99,116,117,114,101>>, date |-> <<2025,6,25>>, popularity |-> 33],
  \* 16: "Festival Crowd" / "Joyful packed crowd." / people / 2024-12-30 / 95
     [id |-> "16", title |-> <<70,101,115,116,105,118,97,108,32,67,114,111,119,100>>,
      description |-> <<74,111,121,102,117,108,32,112,97,99,107,101,100,32,99,114,111,119,100,46>>,
      category |-> <<112,101,111,112,108,101>>, date |-> <<2024,12,30>>, popularity |-> 95],
  \* 17: "Pasta Delight" / "Creamy pasta close-up." / food / 2025-04-15 / 71
     [id |-> "17", title |-> <<80,97,115,116,97,32,68,101,108,105,103,104,116>>,
      description |-> <<67,114,101,97,109,121,32,112,97,115,116,97,32,99,108,111,115,101,45,117,112,46>>,
      category |-> <<102,111,111,100>>, date |-> <<2025,4,15>>, popularity |-> 71],
  \* 18: "Foggy Pier" / "Pier vanishing into fog." / travel / 2021-11-21 / 29
     [id |-> "18", title |-> <<70,111,103,103,121,32,80,105,101,114>>,
      description |-> <<80,105,101,114,32,118,97,110,105,115,104,105,110,103,32,105,110,116,111,32,102,111,103,46>>,
      category |-> <<116,114,97,118,101,108>>, date |-> <<2021,11,21>>, popularity |-> 29],
  \* 19: "Golden Fields" / "Harvest fields at dusk." / nature / 2024-08-30 / 60
     [id |-> "19", title |-> <<71,111,108,100,101,110,32,70,105,101,108,100,115>>,
      description |-> <<72,97,114,118,101,115,116,32,102,105,101,108,100,115,32,97,116,32,100,117,115,107,46>>,
      category |-> <<110,97,116,117,114,101>>, date |-> <<2024,8,30>>, popularity |-> 60],
  \* 20: "Glass Tower" / "Reflections on glass facade." / architecture / 2025-08-03 / 125
     [id |-> "20", title |-> <<71,108,97,115,115,32,84,111,119,101,114>>,
      description |-> <<82,101,102,108,101,99,116,105,111,110,115,32,111,110,32,103,108,97,115,115,32,102,97,99,97,100,101,46>>,
      category |-> <<97,114,99,104,105,116,101,99,116,117,114,101>>, date |-> <<2025,8,3>>, popularity |-> 125] >>

\* The catalog the page works on: the first NumImages sample records.
NumImages == 9

IMAGES == SubSeq(SAMPLE_IMAGES, 1, NumImages)

PAGE_SIZE == 8

NoImg == "none"

Ids == {IMAGES[k].id : k \in DOMAIN IMAGES}

\* IMAGES.find(i => i.id === imgId): the first record with that id.
FindImage(imgId) ==
  LET ks == {k \in DOMAIN IMAGES : IMAGES[k].id = imgId}
  IN  IMAGES[CHOOSE k \in ks : \A j \in ks : k <= j]

(* --------------------------- Text primitives -------------------------- *)
Space == <<32>>

\* String.prototype.toLowerCase on the ASCII range.
ToLowerCase(s) == [i \in 1..Len(s) |-> IF s[i] \in 65..90 THEN s[i] + 32 ELSE s[i]]

WhiteSpace == {9, 10, 11, 12, 13, 32}

\* String.prototype.trim: drops leading and trailing white space.
Trim(s) ==
  LET keep == {i \in 1..Len(s) : s[i] \notin WhiteSpace}
  IN  IF keep = {} THEN <<>>
      ELSE LET lo == CHOOSE i \in keep : \A j \in keep : i <= j
               hi == CHOOSE i \in keep : \A j \in keep : j <= i
           IN  SubSeq(s, lo, hi)

\* String.prototype.includes: needle occurs as a contiguous run of hay.
\* (Both texts are bound as values, so that each is computed once.)
Includes(hay, needle) ==
  \E h \in {hay}, n \in {needle} :
    \/ Len(n) = 0
    \/ \E i \in 1..(Len(h) - Len(n) + 1) : SubSeq(h, i, i + Len(n) - 1) = n

\* Sign of a lexicographic comparison of two code sequences.
RECURSIVE LexCompare(_, _)
LexCompare(a, b) ==
  IF a = <<>> /\ b = <<>> THEN 0
  ELSE IF a = <<>> THEN -1
  ELSE IF b = <<>> THEN 1
  ELSE IF Head(a) < Head(b) THEN -1
  ELSE IF Head(a) > Head(b) THEN 1
  ELSE LexCompare(Tail(a), Tail(b))

\* String.prototype.localeCompare: letters compare without regard to case
\* first; texts equal up to case put the lower-case letter first.
LocaleCompare(a, b) ==
  LET primary == LexCompare(ToLowerCase(a), ToLowerCase(b))
  IN  IF primary # 0 THEN primary ELSE LexCompare(b, a)

\* new Date("YYYY-MM-DD"): the UTC midnight of that day, counted in days since
\* the epoch (the timestamp divided by 86 400 000 ms; a difference of two
\* such values keeps its sign).
DateValue(d) ==
  LET y   == IF d[2] <= 2 THEN d[1] - 1 ELSE d[1]
      era == y \div 400
      yoe == y - era * 400
      mp  == IF d[2] > 2 THEN d[2] - 3 ELSE d[2] + 9
      doy == (153 * mp + 2) \div 5 + d[3] - 1
      doe == yoe * 365 + yoe \div 4 - yoe \div 100 + doy
  IN  era * 146097 + doe - 719468

(* ------------------------ Filter / search / sort ---------------------- *)
CatAll == <<97,108,108>>                                  \* "all"
CatNature == <<110,97,116,117,114,101>>                   \* "nature"
CatTravel == <<116,114,97,118,101,108>>                   \* "travel"
CatArchitecture == <<97,114,99,104,105,116,101,99,116,117,114,101>>
CatFood == <<102,111,111,100>>                            \* "food"
CatPeople == <<112,101,111,112,108,101>>                  \* "people"

\* The text an image is searched in: title + " " + description + " " + category.
SearchText(img) ==
  ToLowerCase(img.title \o Space \o img.description \o Space \o img.category)

MatchesCategory(img, category) ==
  IF category = CatAll THEN TRUE ELSE img.category = category

\* Variant: the image text is searched as written, without lower-casing it.
MatchesSearchCaseSensitive(img, query) ==
  IF query = <<>> THEN TRUE
  ELSE Includes(img.title \o Space \o img.description \o Space \o img.category, query)

MatchesSearch(img, query) ==
  IF query = <<>> THEN TRUE ELSE Includes(SearchText(img), query)

\* The comparator handed to Array.prototype.sort.
CompareBy(sortBy, a, b) ==
  IF sortBy = "newest" THEN DateValue(b.date) - DateValue(a.date)
  ELSE IF sortBy = "oldest" THEN DateValue(a.date) - DateValue(b.date)
  ELSE IF sortBy = "popular" THEN b.popularity - a.popularity
  ELSE IF sortBy = "name" THEN LocaleCompare(a.title, b.title)
  ELSE 0

\* Array.prototype.filter: the elements satisfying Keep, in order.
RECURSIVE FilterSeq(_, _, _)
FilterSeq(s, category, query) ==
  IF s = <<>> THEN <<>>
  ELSE LET rest == FilterSeq(Tail(s), category, query)
       IN  IF MatchesCategory(Head(s), category) /\ MatchesSearch(Head(s), query)
           THEN <<Head(s)>> \o rest ELSE rest

\* Insertion before the equals of x: the order an unstable sort may give.
RECURSIVE InsertSortedBeforeEquals(_, _, _)
InsertSortedBeforeEquals(s, x, sortBy) ==
  IF s = <<>> THEN <<x>>
  ELSE IF CompareBy(sortBy, Head(s), x) < 0
       THEN <<Head(s)>> \o InsertSortedBeforeEquals(Tail(s), x, sortBy)
       ELSE <<x>> \o s

\* Stable insertion of x into the sorted sequence s (after its equals).
RECURSIVE InsertSorted(_, _, _)
InsertSorted(s, x, sortBy) ==
  IF s = <<>> THEN <<x>>
  ELSE IF CompareBy(sortBy, Head(s), x) <= 0
       THEN <<Head(s)>> \o InsertSorted(Tail(s), x, sortBy)
       ELSE <<x>> \o s

\* Array.prototype.sort (stable since ES2019) with the comparator above.  The
\* sorted prefix is bound as a value, so that it is computed once.
RECURSIVE StableSort(_, _, _)
StableSort(s, n, sortBy) ==
  IF n = 0 THEN <<>>
  ELSE CHOOSE sorted \in {InsertSorted(prefix, s[n], sortBy) :
                             prefix \in {StableSort(s, n - 1, sortBy)}} : TRUE

\* applyFiltersSearchSort: the new filteredList, as the sequence of ids.
applyFiltersSearchSort(category, searchValue_, sortBy) ==
  LET Filtered(query) == FilterSeq(IMAGES, category, query)
      Sorted(kept)    == StableSort(kept, Len(kept), sortBy)
      IdsOf(sorted)   == [i \in 1..Len(sorted) |-> sorted[i].id]
  IN  CHOOSE list \in
        {IdsOf(sorted) : sorted \in
          {Sorted(kept) : kept \in
            {Filtered(query) : query \in {ToLowerCase(Trim(searchValue_))}}}} : TRUE

(* ------------------- localStorage text of the favorites --------------- *)
\* A stored text is a sequence of JSON tokens; Missing is getItem's null.
Missing == <<[t |-> "null-item", v |-> ""]>>
LBracket == [t |-> "[", v |-> ""]
RBracket == [t |-> "]", v |-> ""]
Comma == [t |-> ",", v |-> ""]
StrTok(s) == [t |-> "string", v |-> s]
NumTok == [t |-> "number", v |-> "5"]
NullTok == [t |-> "null", v |-> ""]
LBrace == [t |-> "{", v |-> ""]
RBrace == [t |-> "}", v |-> ""]

\* JSON.stringify(Array.from(favorites)) for an array of strings.
RECURSIVE StringifyItems(_)
StringifyItems(arr) ==
  IF arr = <<>> THEN <<>>
  ELSE IF Len(arr) = 1 THEN <<StrTok(arr[1])>>
  ELSE <<StrTok(arr[1]), Comma>> \o StringifyItems(Tail(arr))

Stringify(arr) == <<LBracket>> \o StringifyItems(arr) \o <<RBracket>>

\* The elements between the brackets: string (, string)* ; fails otherwise.
RECURSIVE ParseItems(_, _)
ParseItems(toks, acc) ==
  IF toks = <<>> THEN [ok |-> FALSE, val |-> <<>>]
  ELSE IF toks[1].t # "string" THEN [ok |-> FALSE, val |-> <<>>]
  ELSE IF Len(toks) = 1 THEN [ok |-> TRUE, val |-> Append(acc, toks[1].v)]
  ELSE IF toks[2] # Comma THEN [ok |-> FALSE, val |-> <<>>]
  ELSE ParseItems(SubSeq(toks, 3, Len(toks)), Append(acc, toks[1].v))

\* JSON.parse: kind "array" with its items, another JSON value, or "throws"
\* (SyntaxError) for a text that is no JSON value.
ParseJSON(toks) ==
  IF toks = <<NullTok>> THEN [kind |-> "null", val |-> <<>>]
  ELSE IF toks = <<NumTok>> THEN [kind |-> "number", val |-> <<>>]
  ELSE IF toks = <<LBrace, RBrace>> THEN [kind |-> "object", val |-> <<>>]
  ELSE IF Len(toks) >= 2 /\ toks[1] = LBracket /\ toks[Len(toks)] = RBracket
       THEN IF Len(toks) = 2 THEN [kind |-> "array", val |-> <<>>]
            ELSE LET r == ParseItems(SubSeq(toks, 2, Len(toks) - 1), <<>>)
                 IN  IF r.ok THEN [kind |-> "array", val |-> r.val]
                     ELSE [kind |-> "throws", val |-> <<>>]
  ELSE [kind |-> "throws", val |-> <<>>]

\* Set.prototype.has on the insertion-ordered set.
Has(favs, imgId) == \E i \in DOMAIN favs : favs[i] = imgId

\* new Set(iterable): insertion order, duplicates dropped.
RECURSIVE NewSet(_, _)
NewSet(arr, acc) ==
  IF arr = <<>> THEN acc
  ELSE NewSet(Tail(arr), IF Has(acc, Head(arr)) THEN acc ELSE Append(acc, Head(arr)))

\* Line 48: new Set(JSON.parse(localStorage.getItem(key) || "[]")).
\* A missing key and the empty text are falsy and read as "[]"; null builds
\* the empty set; a number or an object is not iterable (TypeError).
HydrateFavorites(stored) ==
  LET text == IF stored = Missing \/ stored = <<>> THEN Stringify(<<>>) ELSE stored
      p    == ParseJSON(text)
  IN  IF p.kind = "array" THEN [ok |-> TRUE, set |-> NewSet(p.val, <<>>)]
      ELSE IF p.kind = "null" THEN [ok |-> TRUE, set |-> <<>>]
      ELSE [ok |-> FALSE, set |-> <<>>]

\* Set.prototype.delete.
RECURSIVE Delete(_, _)
Delete(favs, imgId) ==
  IF favs = <<>> THEN <<>>
  ELSE IF Head(favs) = imgId THEN Delete(Tail(favs), imgId)
  ELSE <<Head(favs)>> \o Delete(Tail(favs), imgId)

\* Variant: the delete branch is lost, only absent ids are added.
ToggledFavoritesAddOnly(favs, imgId) ==
  IF Has(favs, imgId) THEN favs ELSE Append(favs, imgId)

\* The favorites after toggleFavorite(imgId): delete when present, else add.
ToggledFavorites(favs, imgId) ==
  IF Has(favs, imgId) THEN Delete(favs, imgId) ELSE Append(favs, imgId)

(* ------------------------------ Rendering ----------------------------- *)
\* filteredList[index] with a 0-based index; NoImg stands for undefined.
ItemAt(list, index) == IF index + 1 \in DOMAIN list THEN list[index + 1] ELSE NoImg

\* createGalleryItem: the node keeps the image, the captured absolute index
\* and the heart icon drawn from the favorites at creation time.
createGalleryItem(imgId, indexAbsolute, favs) ==
  [id |-> imgId, index |-> indexAbsolute, heart |-> Has(favs, imgId)]

\* Variant: items capture their index within the page, not within the list.
PageItemsPageIndex(list, page, favs) ==
  LET start == page * PAGE_SIZE
      end   == start + PAGE_SIZE
      last  == IF end < Len(list) THEN end ELSE Len(list)
  IN  [k \in 1..(IF last > start THEN last - start ELSE 0) |->
         createGalleryItem(list[start + k], k - 1, favs)]

\* The items renderGalleryPage appends: filteredList.slice(start, end).
PageItems(list, page, favs) ==
  LET start == page * PAGE_SIZE
      end   == start + PAGE_SIZE
      last  == IF end < Len(list) THEN end ELSE Len(list)
  IN  [k \in 1..(IF last > start THEN last - start ELSE 0) |->
         createGalleryItem(list[start + k], start + (k - 1), favs)]

\* Variant: the test compares the start of the page with the length.
LoadMoreShownFromStart(list, page) == (page * PAGE_SIZE) < Len(list)

\* Whether renderGalleryPage leaves the load-more button displayed.
LoadMoreShown(list, page) == (page * PAGE_SIZE + PAGE_SIZE) < Len(list)

\* renderFavoritesSidebar: one row per favorite id that IMAGES knows.
RECURSIVE SidebarRows(_)
SidebarRows(favs) ==
  IF favs = <<>> THEN <<>>
  ELSE IF Head(favs) \in Ids THEN <<FindImage(Head(favs)).id>> \o SidebarRows(Tail(favs))
  ELSE SidebarRows(Tail(favs))

\* updateLightboxFavoriteIcon: the icon follows the selected image, and is
\* left as it was when filteredList[currentIndex] is undefined.
LightboxFavoriteIcon(list, index, favs, old) ==
  IF ItemAt(list, index) = NoImg THEN old ELSE Has(favs, ItemAt(list, index))

\* updateLightbox: the image shown, left as it was when there is none.
LightboxShown(list, index, old) ==
  IF ItemAt(list, index) = NoImg THEN old ELSE ItemAt(list, index)

(* ------------------------------- Bounds -------------------------------- *)
\* Timer handles handed out by setInterval and by setTimeout are each drawn
\* from 1..MaxTimerId.
MaxTimerId == 2

\* At most MaxDownloads fetches are pending at a time.
MaxDownloads == 2

\* The images whose favorite buttons the user presses.
ToggleIds == {"3", "8"}

\* What the favorites key may hold when the page is first loaded: no item,
\* the empty text, valid lists (one with a repeated id), a truncated list,
\* and JSON values that are no list.
InitialStorage ==
  { Missing,
    <<>>,
    Stringify(<<>>),
    Stringify(<<"3">>),
    <<LBracket, StrTok("8"), Comma, StrTok("8"), RBracket>>,
    <<LBracket, StrTok("3")>>,
    <<NumTok>>,
    <<NullTok>>,
    <<LBrace, RBrace>> }

\* Filter buttons, sort modes and search texts the user picks among.
Categories == {CatAll, CatNature, CatTravel, CatArchitecture, CatFood, CatPeople}
SortModes == {"newest", "oldest", "popular", "name", "custom"}
SearchTexts ==
  { <<>>,
    <<32,32>>,                              \* "  "
    <<32,67,105,116,121,32>>,               \* " City "
    <<66,82,73,68,71,69>>,                  \* "BRIDGE"
    <<46,32,102,111,111,100>>,              \* ". food" (description end + category)
    <<122,122,122>> }                       \* "zzz"

(* -------------------------------- State -------------------------------- *)
VARIABLES
  pc,                 \* "running" once the script has run, "crashed" if it threw
  storedFavorites,    \* localStorage["gallery_favorites"]
  favorites,          \* the Set, as its insertion-ordered sequence of ids
  activeCategory,
  searchValue,        \* searchInput.value
  sortValue,          \* sortSelect.value
  searchDeb,          \* handle of the last debounce timeout set, 0 for undefined
  timeouts,           \* handles of the timeouts that are pending
  filteredList,       \* ids, in order
  currentPage,
  gallery,            \* children of galleryEl: [id, index, heart]
  loadMoreBtn,        \* TRUE when displayed
  lightboxActive,     \* lightbox has class "active"
  currentIndex,
  lightboxImage,      \* id of the image the lightbox shows, NoImg before any
  favoriteBtnActive,  \* lightbox heart filled
  slideshowInterval,  \* handle of the slideshow timer, 0 for null
  intervals,          \* handles of the interval timers that are running
  slideshowBtnActive, \* slideshow button shows "pause"
  favoritesList,      \* sidebar rows, ids in order
  storedTheme,        \* localStorage["gallery_theme"]
  dataTheme,          \* data-theme attribute of the document element, "none" if absent
  themeIcon,          \* icon of the theme button
  downloads,          \* pending downloads: the image each one captured, in order
  downloadOutcome,    \* what the last completed download did
  lastEvent,          \* the handler that ran last
  lastStopped         \* whether that handler cancelled the running slideshow timer

filterVars == <<activeCategory, searchValue, sortValue, searchDeb, timeouts>>
gridVars == <<filteredList, currentPage, gallery, loadMoreBtn>>
favVars == <<storedFavorites, favorites, favoritesList>>
lightboxVars == <<lightboxActive, currentIndex, lightboxImage, favoriteBtnActive>>
slideshowVars == <<slideshowInterval, intervals, slideshowBtnActive>>
themeVars == <<storedTheme, dataTheme, themeIcon>>
downloadVars == <<downloads, downloadOutcome>>

vars == <<pc, filterVars, gridVars, favVars, lightboxVars, slideshowVars, themeVars,
          downloadVars, lastEvent, lastStopped>>

(* ------------------------- Handler building blocks --------------------- *)
\* Bookkeeping at the end of a handler: which one ran, and whether it took the
\* slideshow timer from running to cancelled.
Handled(name) ==
  /\ lastEvent' = name
  /\ lastStopped' = (slideshowInterval # 0 /\ slideshowInterval' = 0)

\* renderGalleryPage on the grid `existing`: the grid, button and cursor after.
renderGalleryPage(existing, list, page, favs) ==
  [ gallery  |-> IF Len(list) = 0 THEN <<>> ELSE existing \o PageItems(list, page, favs),
    loadMore |-> LoadMoreShown(list, page),
    page     |-> page + 1 ]

\* resetAndRender: clear the grid, recompute filteredList, render page 0.
\* (The list and the rendering are bound as values: each is computed once.)
resetAndRender(category, sortBy, favs) ==
  \E list \in {applyFiltersSearchSort(category, searchValue, sortBy)} :
    \E r \in {renderGalleryPage(<<>>, list, 0, favs)} :
      /\ filteredList' = list
      /\ gallery' = r.gallery
      /\ loadMoreBtn' = r.loadMore
      /\ currentPage' = r.page

\* Variant: the index is stored and the lightbox shown without the range check.
openLightboxByIndexUnchecked(indexAbsolute) ==
  /\ currentIndex' = indexAbsolute
  /\ lightboxImage' = LightboxShown(filteredList, indexAbsolute, lightboxImage)
  /\ favoriteBtnActive' =
       LightboxFavoriteIcon(filteredList, indexAbsolute, favorites, favoriteBtnActive)
  /\ lightboxActive' = TRUE
\* openLightboxByIndex, then openLightbox and updateLightbox.
openLightboxByIndex(indexAbsolute) ==
  IF indexAbsolute < 0 \/ indexAbsolute >= Len(filteredList)
  THEN UNCHANGED lightboxVars
  ELSE /\ currentIndex' = indexAbsolute
       /\ lightboxImage' = LightboxShown(filteredList, indexAbsolute, lightboxImage)
       /\ favoriteBtnActive' =
            LightboxFavoriteIcon(filteredList, indexAbsolute, favorites, favoriteBtnActive)
       /\ lightboxActive' = TRUE

\* Variant: next stops at the last image instead of wrapping round.
NextIndexNoWrap(index, n) == IF index + 1 >= n THEN index ELSE index + 1

NextIndex(index, n) == (index + 1) % n
PrevIndex(index, n) == (index - 1 + n) % n

\* The tail shared by showNext and showPrev: store the index, updateLightbox.
NavigateTo(index) ==
  /\ currentIndex' = index
  /\ lightboxImage' = LightboxShown(filteredList, index, lightboxImage)
  /\ favoriteBtnActive' =
       LightboxFavoriteIcon(filteredList, index, favorites, favoriteBtnActive)
  /\ UNCHANGED lightboxActive

showNext ==
  IF Len(filteredList) = 0
  THEN UNCHANGED lightboxVars
  ELSE NavigateTo(NextIndex(currentIndex, Len(filteredList)))

showPrev ==
  IF Len(filteredList) = 0
  THEN UNCHANGED lightboxVars
  ELSE NavigateTo(PrevIndex(currentIndex, Len(filteredList)))

startSlideshow ==
  /\ \E id \in 1..MaxTimerId : id \notin intervals
  /\ LET id == CHOOSE i \in 1..MaxTimerId :
                 i \notin intervals /\ \A j \in 1..MaxTimerId : j \notin intervals => i <= j
     IN  /\ slideshowInterval' = id
         /\ intervals' = intervals \cup {id}
  /\ slideshowBtnActive' = TRUE

stopSlideshow ==
  IF slideshowInterval = 0
  THEN UNCHANGED slideshowVars
  ELSE /\ intervals' = intervals \ {slideshowInterval}
       /\ slideshowInterval' = 0
       /\ slideshowBtnActive' = FALSE

\* Variant: the toggle starts a timer whether or not one is running.
toggleSlideshowAlwaysStarts == startSlideshow

toggleSlideshow == IF slideshowInterval # 0 THEN stopSlideshow ELSE startSlideshow

\* Variant: closing hides the lightbox and leaves the timer alone.
closeLightboxKeepsTimer ==
  /\ lightboxActive' = FALSE
  /\ UNCHANGED <<currentIndex, lightboxImage, favoriteBtnActive>>
  /\ UNCHANGED slideshowVars

closeLightbox ==
  /\ lightboxActive' = FALSE
  /\ UNCHANGED <<currentIndex, lightboxImage, favoriteBtnActive>>
  /\ stopSlideshow

\* Variant: the set is mutated and the views refreshed, nothing is persisted.
toggleFavoriteUnsaved(imgId, btn) ==
  LET favs == ToggledFavorites(favorites, imgId)
  IN  /\ favorites' = favs
      /\ UNCHANGED storedFavorites
      /\ favoriteBtnActive' =
           LightboxFavoriteIcon(filteredList, currentIndex, favs, favoriteBtnActive)
      /\ favoritesList' = SidebarRows(favs)
      /\ IF btn # 0
         THEN gallery' = [gallery EXCEPT ![btn].heart = Has(favs, imgId)]
         ELSE TRUE

\* toggleFavorite(imgId, btnNode) of line 558, the definition in force:
\* mutate the set, persist, refresh the lightbox icon, re-render the sidebar.
\* The grid is left to the caller (btn is the grid position of btnNode, 0 for none).
toggleFavorite(imgId, btn) ==
  LET favs == ToggledFavorites(favorites, imgId)
  IN  /\ favorites' = favs
      /\ storedFavorites' = Stringify(favs)
      /\ favoriteBtnActive' =
           LightboxFavoriteIcon(filteredList, currentIndex, favs, favoriteBtnActive)
      /\ favoritesList' = SidebarRows(favs)
      /\ IF btn # 0
         THEN gallery' = [gallery EXCEPT ![btn].heart = Has(favs, imgId)]
         ELSE TRUE

\* Variant: the lookup finds nothing, so the caller always falls back.
FindIndexNotFound(list, imgId) == -1

\* Array.prototype.findIndex(i => i.id === imgId), 0-based, -1 when absent.
FindIndex(list, imgId) ==
  LET ks == {k \in DOMAIN list : list[k] = imgId}
  IN  IF ks = {} THEN -1 ELSE (CHOOSE k \in ks : \A j \in ks : k <= j) - 1

(* -------------------------------- Theme -------------------------------- *)
\* localStorage values under "gallery_theme": none stored, the two the page
\* writes, and one it never writes.
NoTheme == "missing"
StoredThemes == {NoTheme, "dark", "light", "blue"}

\* updateThemeButton: a sun while the attribute says dark, a moon otherwise.
updateThemeButton(attr) == IF attr = "dark" THEN "sun" ELSE "moon"

\* applyStoredTheme: the attribute is set for "dark" and removed otherwise.
applyStoredTheme(stored) ==
  LET attr == IF stored = "dark" THEN "dark" ELSE "none"
  IN  [dataTheme |-> attr, themeIcon |-> updateThemeButton(attr)]

\* The theme after the script has run: init() applies the stored theme; when
\* the script threw before init() the document is as the markup has it (the
\* markup is not part of the source: no attribute, the button's own icon).
LoadTheme(pcAfter, stored) ==
  IF pcAfter = "running" THEN applyStoredTheme(stored)
  ELSE [dataTheme |-> "none", themeIcon |-> "markup"]

\* Variant: the toggle stores "dark" whichever way it switched.
toggleThemeStoresDark ==
  LET attr == IF dataTheme = "dark" THEN "none" ELSE "dark"
  IN  /\ dataTheme' = attr
      /\ storedTheme' = "dark"
      /\ themeIcon' = updateThemeButton(attr)

\* toggleTheme: flip the attribute, store the new theme, redraw the button.
toggleTheme ==
  LET attr == IF dataTheme = "dark" THEN "none" ELSE "dark"
  IN  /\ dataTheme' = attr
      /\ storedTheme' = (IF dataTheme = "dark" THEN "light" ELSE "dark")
      /\ themeIcon' = updateThemeButton(attr)

(* ------------------------------- Download ------------------------------ *)
\* What a completed download did: the file saved (named by the image's title)
\* or the URL opened in a new tab, and the toast shown.
NoOutcome == [kind |-> "none", img |-> NoImg, toast |-> ""]
Saved(imgId) == [kind |-> "saved", img |-> imgId, toast |-> "Download started"]
Opened(imgId) ==
  [kind |-> "opened", img |-> imgId,
   toast |-> "Opened image in new tab (download may require manual save)"]

\* The sequence without its d-th element.
RemoveAt(s, d) == SubSeq(s, 1, d - 1) \o SubSeq(s, d + 1, Len(s))

(* ------------------------- Page load and reload ------------------------ *)
\* The script run from line 1 with `stored` under the favorites key and the
\* sort select showing `sortBy`: line 48 either throws, which ends the script
\* before anything is bound or rendered, or init() and the first sidebar
\* render complete.
Load(stored, sortBy) ==
  LET h    == HydrateFavorites(stored)
      list == applyFiltersSearchSort(CatAll, <<>>, sortBy)
      r    == renderGalleryPage(<<>>, list, 0, h.set)
  IN  [ pc            |-> IF h.ok THEN "running" ELSE "crashed",
        favorites     |-> h.set,
        filteredList  |-> IF h.ok THEN list ELSE <<>>,
        gallery       |-> IF h.ok THEN r.gallery ELSE <<>>,
        loadMoreBtn   |-> IF h.ok THEN r.loadMore ELSE FALSE,
        currentPage   |-> IF h.ok THEN r.page ELSE 0,
        favoritesList |-> IF h.ok THEN SidebarRows(h.set) ELSE <<>> ]

\* The page as the script leaves it, for each stored favorites value, sort
\* selection and stored theme given.
InitWith(storages, sorts, themes) ==
  \E stored \in storages, sortBy \in sorts, theme \in themes :
    LET s == Load(stored, sortBy)
        t == LoadTheme(s.pc, theme)
    IN  /\ pc = s.pc
        /\ storedTheme = theme
        /\ dataTheme = t.dataTheme
        /\ themeIcon = t.themeIcon
        /\ downloads = <<>>
        /\ downloadOutcome = NoOutcome
        /\ storedFavorites = stored
        /\ favorites = s.favorites
        /\ activeCategory = CatAll
        /\ searchValue = <<>>
        /\ sortValue = sortBy
        /\ searchDeb = 0
        /\ timeouts = {}
        /\ filteredList = s.filteredList
        /\ currentPage = s.currentPage
        /\ gallery = s.gallery
        /\ loadMoreBtn = s.loadMoreBtn
        /\ lightboxActive = FALSE
        /\ currentIndex = 0
        /\ lightboxImage = NoImg
        /\ favoriteBtnActive = FALSE
        /\ slideshowInterval = 0
        /\ intervals = {}
        /\ slideshowBtnActive = FALSE
        /\ favoritesList = s.favoritesList
        /\ lastEvent = "init"
        /\ lastStopped = FALSE

InitFrom(storages, sorts) == InitWith(storages, sorts, {NoTheme})

\* The user reloads the page: beforeunload persists the favorites (when the
\* script got far enough to bind it), every timer and pending fetch dies, the
\* script runs again.
Reload(sortBy) ==
  LET stored == IF pc = "running" THEN Stringify(favorites) ELSE storedFavorites
      s      == Load(stored, sortBy)
      t      == LoadTheme(s.pc, storedTheme)
  IN  /\ pc' = s.pc
      /\ UNCHANGED storedTheme
      /\ dataTheme' = t.dataTheme
      /\ themeIcon' = t.themeIcon
      /\ downloads' = <<>>
      /\ downloadOutcome' = NoOutcome
      /\ storedFavorites' = stored
      /\ favorites' = s.favorites
      /\ activeCategory' = CatAll
      /\ searchValue' = <<>>
      /\ sortValue' = sortBy
      /\ searchDeb' = 0
      /\ timeouts' = {}
      /\ filteredList' = s.filteredList
      /\ currentPage' = s.currentPage
      /\ gallery' = s.gallery
      /\ loadMoreBtn' = s.loadMoreBtn
      /\ lightboxActive' = FALSE
      /\ currentIndex' = 0
      /\ lightboxImage' = NoImg
      /\ favoriteBtnActive' = FALSE
      /\ slideshowInterval' = 0
      /\ intervals' = {}
      /\ slideshowBtnActive' = FALSE
      /\ favoritesList' = s.favoritesList
      /\ lastEvent' = "reload"
      /\ lastStopped' = FALSE

(* ------------------------------- Handlers ------------------------------ *)
\* One action per event handler, run to completion.  The handlers of the
\* lightbox buttons are bound in bindUI without a test of the lightbox state
\* and the markup and stylesheet are not part of the source, so their click
\* events are taken in every state; the document keydown handler tests
\* lightbox.classList itself.
\* Click on a filter button.
FilterClick(category) ==
  /\ pc = "running"
  /\ activeCategory' = category
  /\ resetAndRender(category, sortValue, favorites)
  /\ UNCHANGED <<pc, themeVars, downloadVars, searchValue, sortValue, searchDeb, timeouts, favVars, lightboxVars, slideshowVars>>
  /\ Handled("filter")

\* setTimeout: a handle that names no pending timeout and is not the handle
\* held, so that a held handle never comes to name a later timeout.
FreshTimeout(pending, held) ==
  LET free == {id \in 1..MaxTimerId : id \notin pending /\ id # held}
  IN  IF free = {} THEN 0 ELSE CHOOSE id \in free : \A other \in free : id <= other

\* Variant: the input handler sets a new timeout without clearTimeout.
SearchInputNoCancel(text) ==
  /\ pc = "running"
  /\ text # searchValue
  /\ searchValue' = text
  /\ FreshTimeout(timeouts, searchDeb) # 0
  /\ searchDeb' = FreshTimeout(timeouts, searchDeb)
  /\ timeouts' = timeouts \cup {searchDeb'}
  /\ UNCHANGED <<pc, themeVars, downloadVars, activeCategory, sortValue, gridVars, favVars, lightboxVars, slideshowVars>>
  /\ Handled("searchInput")

\* Input event on the search field: clearTimeout(searchDeb), then setTimeout.
SearchInput(text) ==
  /\ pc = "running"
  /\ text # searchValue
  /\ searchValue' = text
  /\ FreshTimeout(timeouts \ {searchDeb}, searchDeb) # 0
  /\ searchDeb' = FreshTimeout(timeouts \ {searchDeb}, searchDeb)
  /\ timeouts' = (timeouts \ {searchDeb}) \cup {searchDeb'}
  /\ UNCHANGED <<pc, themeVars, downloadVars, activeCategory, sortValue, gridVars, favVars, lightboxVars, slideshowVars>>
  /\ Handled("searchInput")

\* The debounce timeout with handle id fires: resetAndRender.  The handle
\* stays in searchDeb.
SearchDebounceFire(id) ==
  /\ pc = "running"
  /\ id \in timeouts
  /\ timeouts' = timeouts \ {id}
  /\ resetAndRender(activeCategory, sortValue, favorites)
  /\ UNCHANGED <<pc, themeVars, downloadVars, activeCategory, searchValue, sortValue, searchDeb, favVars, lightboxVars, slideshowVars>>
  /\ Handled("searchDebounce")

\* Change event on the sort select.
SortChange(sortBy) ==
  /\ pc = "running"
  /\ sortBy # sortValue
  /\ sortValue' = sortBy
  /\ resetAndRender(activeCategory, sortBy, favorites)
  /\ UNCHANGED <<pc, themeVars, downloadVars, activeCategory, searchValue, searchDeb, timeouts, favVars, lightboxVars, slideshowVars>>
  /\ Handled("sort")

\* renderGalleryPage() as called by the load-more button and the sentinel.
AppendPage ==
  LET r == renderGalleryPage(gallery, filteredList, currentPage, favorites)
  IN  /\ gallery' = r.gallery
      /\ loadMoreBtn' = r.loadMore
      /\ currentPage' = r.page
      /\ UNCHANGED filteredList

\* Click on the load-more button (it can be clicked only while displayed).
LoadMoreClick ==
  /\ pc = "running"
  /\ loadMoreBtn
  /\ AppendPage
  /\ UNCHANGED <<pc, themeVars, downloadVars, filterVars, favVars, lightboxVars, slideshowVars>>
  /\ Handled("loadMore")

\* The sentinel scrolls into view; the observer renders only if the button shows.
SentinelIntersect ==
  /\ pc = "running"
  /\ loadMoreBtn
  /\ AppendPage
  /\ UNCHANGED <<pc, themeVars, downloadVars, filterVars, favVars, lightboxVars, slideshowVars>>
  /\ Handled("sentinel")

\* Click on a grid item or on its open button.
GridItemClick(k) ==
  /\ pc = "running"
  /\ k \in DOMAIN gallery
  /\ openLightboxByIndex(gallery[k].index)
  /\ UNCHANGED <<pc, themeVars, downloadVars, filterVars, gridVars, favVars, slideshowVars>>
  /\ Handled("gridOpen")

\* Enter on a focused grid item: the item's keydown handler opens; the
\* document handler sees the same event and has nothing bound to Enter.
GridItemEnter(k) ==
  /\ pc = "running"
  /\ k \in DOMAIN gallery
  /\ openLightboxByIndex(gallery[k].index)
  /\ UNCHANGED <<pc, themeVars, downloadVars, filterVars, gridVars, favVars, slideshowVars>>
  /\ Handled("gridEnter")

\* Space on a focused grid item: the item's keydown handler opens, then the
\* event bubbles to the document handler, which toggles the slideshow when
\* the lightbox is (now) active; the target is the item, not an INPUT.
GridItemSpace(k) ==
  /\ pc = "running"
  /\ k \in DOMAIN gallery
  /\ openLightboxByIndex(gallery[k].index)
  /\ IF lightboxActive' THEN toggleSlideshow ELSE UNCHANGED slideshowVars
  /\ UNCHANGED <<pc, themeVars, downloadVars, filterVars, gridVars, favVars>>
  /\ Handled("gridSpace")

\* Click on the favorite button of grid item k.
GridFavClick(k) ==
  /\ pc = "running"
  /\ k \in DOMAIN gallery
  /\ gallery[k].id \in ToggleIds
  /\ toggleFavorite(gallery[k].id, k)
  /\ UNCHANGED <<pc, themeVars, downloadVars, filterVars, filteredList, currentPage, loadMoreBtn,
                 lightboxActive, currentIndex, lightboxImage, slideshowVars>>
  /\ Handled("gridFavorite")

\* Enter or Space pressed on the focused favorite button of grid item k.  The
\* keydown event bubbles from the button to the item, whose keydown handler
\* does not look at the target and opens the lightbox, and on to the document
\* handler, which toggles the slideshow on Space when the lightbox is (now)
\* active.  Only the button's click handler stops propagation; the click by
\* which the browser then activates a button is a later event.
GridFavKeyDown(k, key) ==
  /\ pc = "running"
  /\ k \in DOMAIN gallery
  /\ gallery[k].id \in ToggleIds
  /\ key \in {"Enter", " "}
  /\ openLightboxByIndex(gallery[k].index)
  /\ IF key = " " /\ lightboxActive' THEN toggleSlideshow ELSE UNCHANGED slideshowVars
  /\ UNCHANGED <<pc, themeVars, downloadVars, filterVars, gridVars, favVars>>
  /\ Handled("gridFavoriteKey")

\* Click on the lightbox favorite button: toggleFavoriteCurrent.
LightboxFavClick ==
  /\ pc = "running"
  /\ ItemAt(filteredList, currentIndex) \in ToggleIds
  /\ toggleFavorite(ItemAt(filteredList, currentIndex), 0)
  /\ UNCHANGED <<pc, themeVars, downloadVars, filterVars, gridVars,
                 lightboxActive, currentIndex, lightboxImage, slideshowVars>>
  /\ Handled("lightboxFavorite")

\* The three ways out of the lightbox.
CloseClick ==
  /\ pc = "running"
  /\ closeLightbox
  /\ UNCHANGED <<pc, themeVars, downloadVars, filterVars, gridVars, favVars>>
  /\ Handled("closeButton")

OverlayClick ==
  /\ pc = "running"
  /\ closeLightbox
  /\ UNCHANGED <<pc, themeVars, downloadVars, filterVars, gridVars, favVars>>
  /\ Handled("closeOverlay")

KeyEscape ==
  /\ pc = "running"
  /\ lightboxActive
  /\ closeLightbox
  /\ UNCHANGED <<pc, themeVars, downloadVars, filterVars, gridVars, favVars>>
  /\ Handled("closeEscape")

\* Next / previous: the lightbox buttons, and the arrow keys while active.
NextClick ==
  /\ pc = "running"
  /\ showNext
  /\ UNCHANGED <<pc, themeVars, downloadVars, filterVars, gridVars, favVars, slideshowVars>>
  /\ Handled("next")

PrevClick ==
  /\ pc = "running"
  /\ showPrev
  /\ UNCHANGED <<pc, themeVars, downloadVars, filterVars, gridVars, favVars, slideshowVars>>
  /\ Handled("prev")

KeyArrowRight ==
  /\ pc = "running"
  /\ lightboxActive
  /\ showNext
  /\ UNCHANGED <<pc, themeVars, downloadVars, filterVars, gridVars, favVars, slideshowVars>>
  /\ Handled("next")

KeyArrowLeft ==
  /\ pc = "running"
  /\ lightboxActive
  /\ showPrev
  /\ UNCHANGED <<pc, themeVars, downloadVars, filterVars, gridVars, favVars, slideshowVars>>
  /\ Handled("prev")

\* Click on the slideshow button; its handler does not look at the lightbox.
SlideshowClick ==
  /\ pc = "running"
  /\ toggleSlideshow
  /\ UNCHANGED <<pc, themeVars, downloadVars, filterVars, gridVars, favVars, lightboxVars>>
  /\ Handled("slideshowButton")

\* Space while the lightbox is active and the target is neither an INPUT nor
\* a grid item.
KeySpace ==
  /\ pc = "running"
  /\ lightboxActive
  /\ toggleSlideshow
  /\ UNCHANGED <<pc, themeVars, downloadVars, filterVars, gridVars, favVars, lightboxVars>>
  /\ Handled("slideshowSpace")

\* A running interval timer fires its callback: showNext.
SlideshowTick(id) ==
  /\ pc = "running"
  /\ id \in intervals
  /\ showNext
  /\ UNCHANGED <<pc, themeVars, downloadVars, filterVars, gridVars, favVars, slideshowVars>>
  /\ Handled("tick")

\* Click on the image of sidebar row r.
SidebarImageClick(r) ==
  /\ pc = "running"
  /\ r \in DOMAIN favoritesList
  /\ LET index == FindIndex(filteredList, favoritesList[r])
     IN  openLightboxByIndex(IF index >= 0 THEN index ELSE 0)
  /\ UNCHANGED <<pc, themeVars, downloadVars, filterVars, gridVars, favVars, slideshowVars>>
  /\ Handled("sidebarOpen")

\* Click on the remove button of sidebar row r: toggleFavorite,
\* renderFavoritesSidebar, resetAndRender.
SidebarRemoveClick(r) ==
  /\ pc = "running"
  /\ r \in DOMAIN favoritesList
  /\ toggleFavorite(favoritesList[r], 0)
  /\ resetAndRender(activeCategory, sortValue, favorites')
  /\ UNCHANGED <<pc, themeVars, downloadVars, filterVars, lightboxActive, currentIndex, lightboxImage, slideshowVars>>
  /\ Handled("sidebarRemove")

\* Click on the theme button.
ThemeToggleClick ==
  /\ pc = "running"
  /\ toggleTheme
  /\ UNCHANGED <<pc, downloadVars, filterVars, gridVars, favVars, lightboxVars, slideshowVars>>
  /\ Handled("themeToggle")

\* Click on the download button: downloadCurrentImage up to its first await.
\* The image is read from filteredList[currentIndex] now and kept in `img`;
\* with no image there the function returns.
DownloadClick ==
  /\ pc = "running"
  /\ Len(downloads) < MaxDownloads
  /\ LET img == ItemAt(filteredList, currentIndex)
     IN  downloads' = IF img = NoImg THEN downloads ELSE Append(downloads, img)
  /\ UNCHANGED <<pc, themeVars, downloadOutcome, filterVars, gridVars, favVars, lightboxVars, slideshowVars>>
  /\ Handled("download")

\* Variant: the file saved is that of the image selected when the fetch ends.
FetchResolvesCurrentSelection(d) ==
  /\ pc = "running"
  /\ d \in DOMAIN downloads
  /\ downloads' = RemoveAt(downloads, d)
  /\ downloadOutcome' = Saved(ItemAt(filteredList, currentIndex))
  /\ UNCHANGED <<pc, themeVars, filterVars, gridVars, favVars, lightboxVars, slideshowVars>>
  /\ Handled("downloadSaved")

\* The fetch of pending download d and the reading of its body succeed: the
\* rest of the try block saves the blob under the captured image's title and
\* shows the toast.
FetchResolves(d) ==
  /\ pc = "running"
  /\ d \in DOMAIN downloads
  /\ downloads' = RemoveAt(downloads, d)
  /\ downloadOutcome' = Saved(downloads[d])
  /\ UNCHANGED <<pc, themeVars, filterVars, gridVars, favVars, lightboxVars, slideshowVars>>
  /\ Handled("downloadSaved")

\* The fetch of pending download d, or the reading of its body, rejects: the
\* catch block opens the captured image's URL in a new tab and shows the toast.
FetchRejects(d) ==
  /\ pc = "running"
  /\ d \in DOMAIN downloads
  /\ downloads' = RemoveAt(downloads, d)
  /\ downloadOutcome' = Opened(downloads[d])
  /\ UNCHANGED <<pc, themeVars, filterVars, gridVars, favVars, lightboxVars, slideshowVars>>
  /\ Handled("downloadOpened")

(* ---------------------------- Specifications -------------------------- *)
\* The page is explored one subsystem at a time: each specification below
\* takes the events of one subsystem with the inputs that exercise it and
\* leaves out events whose handlers keep that subsystem's variables UNCHANGED
\* (or only repeat an effect that an included event already has).
Init == InitFrom(InitialStorage, {"newest", "name"})

\* The filter, search, sort and pagination events, with the sidebar removal
\* that re-renders the grid.
NextGrid ==
  \/ \E category \in Categories : FilterClick(category)
  \/ \E text \in SearchTexts : SearchInput(text)
  \/ \E id \in 1..MaxTimerId : SearchDebounceFire(id)
  \/ \E sortBy \in SortModes : SortChange(sortBy)
  \/ LoadMoreClick
  \/ SentinelIntersect
  \/ \E r \in 1..Len(IMAGES) : SidebarRemoveClick(r)

InitGrid == InitFrom({Missing, Stringify(<<"3">>)}, {"newest"})

SpecGrid == InitGrid /\ [][NextGrid]_vars

\* The lightbox and slideshow events over lists of several, one and no image.
NextLightbox ==
  \/ \E category \in {CatAll, CatPeople} : FilterClick(category)
  \/ \E text \in {<<>>, <<122,122,122>>} : SearchInput(text)
  \/ \E id \in 1..MaxTimerId : SearchDebounceFire(id)
  \/ \E k \in 1..Len(IMAGES) : GridItemClick(k)
  \/ \E k \in 1..Len(IMAGES) : GridItemEnter(k)
  \/ \E k \in 1..Len(IMAGES) : GridItemSpace(k)
  \/ CloseClick
  \/ OverlayClick
  \/ KeyEscape
  \/ NextClick
  \/ PrevClick
  \/ KeyArrowRight
  \/ KeyArrowLeft
  \/ SlideshowClick
  \/ KeySpace
  \/ \E id \in 1..MaxTimerId : SlideshowTick(id)

InitLightbox == InitFrom({Missing}, {"newest"})

SpecLightbox == InitLightbox /\ [][NextLightbox]_vars

\* The sidebar's image clicks over lists that hold the favorite at several
\* positions, lists that do not hold it, and the empty list.
NextSidebar ==
  \/ \E category \in {CatAll, CatArchitecture, CatPeople} : FilterClick(category)
  \/ \E text \in {<<>>, <<122,122,122>>} : SearchInput(text)
  \/ \E id \in 1..MaxTimerId : SearchDebounceFire(id)
  \/ \E sortBy \in {"newest", "oldest"} : SortChange(sortBy)
  \/ \E r \in 1..Len(IMAGES) : SidebarImageClick(r)
  \/ NextClick
  \/ PrevClick
  \/ CloseClick

InitSidebar == InitFrom({Stringify(<<"3">>)}, {"newest"})

SpecSidebar == InitSidebar /\ [][NextSidebar]_vars
\* The search field: bursts of keystrokes, the debounce timeout, and the other
\* events that recompute or extend the list while a timeout is pending.  A
\* timeout that stays pending fires (after 220 ms), hence the fairness.
NextSearch ==
  \/ \E text \in {<<>>, <<32,67,105,116,121,32>>, <<122,122,122>>} : SearchInput(text)
  \/ \E id \in 1..MaxTimerId : SearchDebounceFire(id)
  \/ \E category \in {CatAll, CatArchitecture} : FilterClick(category)
  \/ \E sortBy \in {"newest", "name"} : SortChange(sortBy)
  \/ LoadMoreClick

InitSearch == InitFrom({Missing}, {"newest"})

SpecSearch ==
  /\ InitSearch
  /\ [][NextSearch]_vars
  /\ \A id \in 1..MaxTimerId : WF_vars(SearchDebounceFire(id))
\* The favorite toggles from the three surfaces, with page loads and reloads.
NextFavorites ==
  \/ \E sortBy \in {"newest", "name"} : Reload(sortBy)
  \/ \E category \in {CatAll, CatFood} : FilterClick(category)
  \/ LoadMoreClick
  \/ \E k \in 1..Len(IMAGES) : GridItemClick(k)
  \/ \E k \in 1..Len(IMAGES) : GridFavClick(k)
  \/ LightboxFavClick
  \/ CloseClick
  \/ \E r \in 1..Len(IMAGES) : SidebarImageClick(r)
  \/ \E r \in 1..Len(IMAGES) : SidebarRemoveClick(r)

SpecFavorites == Init /\ [][NextFavorites]_vars

\* The favorite button of a grid item, by pointer and by keyboard, with the
\* lightbox open or closed and the slideshow running or not.
NextGridFavorite ==
  \/ \E k \in 1..Len(IMAGES) : GridFavClick(k)
  \/ \E k \in 1..Len(IMAGES), key \in {"Enter", " "} : GridFavKeyDown(k, key)
  \/ \E k \in 1..Len(IMAGES) : GridItemClick(k)
  \/ LoadMoreClick
  \/ CloseClick
  \/ KeySpace

InitGridFavorite == InitFrom({Missing, Stringify(<<"3">>)}, {"newest"})

SpecGridFavorite == InitGridFavorite /\ [][NextGridFavorite]_vars

\* The theme button among the other events, with reloads, from each stored
\* theme.
NextTheme ==
  \/ ThemeToggleClick
  \/ Reload("newest")
  \/ \E category \in {CatAll, CatPeople} : FilterClick(category)
  \/ LoadMoreClick
  \/ \E k \in 1..2 : GridItemClick(k)
  \/ \E k \in 1..Len(IMAGES) : GridFavClick(k)
  \/ CloseClick

InitTheme == InitWith({Missing}, {"newest"}, StoredThemes)

SpecTheme == InitTheme /\ [][NextTheme]_vars

\* Downloads in flight while the selection, the list and the lightbox change.
NextDownload ==
  \/ DownloadClick
  \/ \E d \in 1..MaxDownloads : FetchResolves(d)
  \/ \E d \in 1..MaxDownloads : FetchRejects(d)
  \/ \E k \in 1..2 : GridItemClick(k)
  \/ \E category \in {CatAll, CatPeople} : FilterClick(category)
  \/ SlideshowClick
  \/ CloseClick

InitDownload == InitFrom({Missing}, {"newest"})

SpecDownload == InitDownload /\ [][NextDownload]_vars

\* Every event of the page: the product of the subsystems above.
Next ==
  \/ \E sortBy \in {"newest", "name"} : Reload(sortBy)
  \/ \E category \in Categories : FilterClick(category)
  \/ \E text \in SearchTexts : SearchInput(text)
  \/ \E id \in 1..MaxTimerId : SearchDebounceFire(id)
  \/ \E sortBy \in SortModes : SortChange(sortBy)
  \/ LoadMoreClick
  \/ SentinelIntersect
  \/ \E k \in 1..Len(IMAGES) : GridItemClick(k)
  \/ \E k \in 1..Len(IMAGES) : GridItemEnter(k)
  \/ \E k \in 1..Len(IMAGES) : GridItemSpace(k)
  \/ \E k \in 1..Len(IMAGES) : GridFavClick(k)
  \/ \E k \in 1..Len(IMAGES), key \in {"Enter", " "} : GridFavKeyDown(k, key)
  \/ LightboxFavClick
  \/ CloseClick
  \/ OverlayClick
  \/ KeyEscape
  \/ NextClick
  \/ PrevClick
  \/ KeyArrowRight
  \/ KeyArrowLeft
  \/ SlideshowClick
  \/ KeySpace
  \/ \E id \in 1..MaxTimerId : SlideshowTick(id)
  \/ \E r \in 1..Len(IMAGES) : SidebarImageClick(r)
  \/ \E r \in 1..Len(IMAGES) : SidebarRemoveClick(r)
  \/ ThemeToggleClick
  \/ DownloadClick
  \/ \E d \in 1..MaxDownloads : FetchResolves(d)
  \/ \E d \in 1..MaxDownloads : FetchRejects(d)

Spec == Init /\ [][Next]_vars


(* ------------------------------- Properties ---------------------------- *)
SetOf(s) == {s[i] : i \in DOMAIN s}

Min(a, b) == IF a < b THEN a ELSE b

CloseEvents == {"closeButton", "closeOverlay", "closeEscape"}
StartEvents == {"slideshowButton", "slideshowSpace", "gridSpace"}
ToggleEvents == {"gridFavorite", "lightboxFavorite", "sidebarRemove"}
RenderEvents == {"init", "reload", "loadMore", "sentinel", "filter", "searchDebounce",
                 "sort", "sidebarRemove"}
RecomputeEvents == {"init", "reload", "filter", "searchDebounce", "sort", "sidebarRemove"}

\* C1: every way out of the lightbox (close button, overlay, Escape) leaves it
\* closed with the slideshow timer cancelled: slideshowInterval is null and no
\* interval is running; a timer tick happens only while a timer is running,
\* and a timer comes into being only through a slideshow start.
C1_CloseStopsSlideshow ==
  [][ /\ lastEvent' \in CloseEvents =>
           ~lightboxActive' /\ slideshowInterval' = 0 /\ intervals' = {}
      /\ lastEvent' = "tick" => slideshowInterval # 0 /\ intervals # {}
      /\ (intervals = {} /\ intervals' # {}) => lastEvent' \in StartEvents
    ]_vars

\* C1 witness: a close that cancelled a running slideshow timer.
C1_Witness ==
  /\ lastEvent \in CloseEvents
  /\ lastStopped
  /\ ~lightboxActive
  /\ intervals = {}

\* C2: a running slideshow timer implies that the lightbox is open.
C2_SlideshowOnlyWhileOpen ==
  (slideshowInterval # 0 \/ intervals # {}) => lightboxActive

\* C3: after every favorite toggle the three views agree with the set: each
\* rendered grid heart is filled iff its image is a favorite, the lightbox
\* heart is filled iff the selected image is a favorite, and the sidebar has
\* a row for an image iff it is a favorite.
C3_ViewsAgreeAfterToggle ==
  lastEvent \in ToggleEvents =>
    /\ \A k \in DOMAIN gallery : gallery[k].heart = Has(favorites, gallery[k].id)
    /\ ItemAt(filteredList, currentIndex) # NoImg =>
         favoriteBtnActive = Has(favorites, ItemAt(filteredList, currentIndex))
    /\ \A id \in Ids : (id \in SetOf(favoritesList)) = Has(favorites, id)

\* C4: a toggle flips the membership of exactly one id and leaves every other
\* id as it was, and toggling that id once more gives back the membership
\* from before the first toggle.
C4_ToggleTwiceRestores ==
  [][ lastEvent' \in ToggleEvents =>
        \E id \in Ids :
          /\ Has(favorites', id) # Has(favorites, id)
          /\ \A other \in Ids \ {id} : Has(favorites', other) = Has(favorites, other)
          /\ SetOf(ToggledFavorites(favorites', id)) = SetOf(favorites)
          /\ \A other \in Ids \ {id} :
               Has(ToggledFavorites(favorites', id), other) = Has(favorites, other)
    ]_vars

\* C4 witness: after a toggle, a set holding two favorites, where removing
\* and re-adding the older one restores the membership but not the order.
C4_Witness ==
  /\ lastEvent \in ToggleEvents
  /\ Len(favorites) = 2
  /\ ToggledFavorites(ToggledFavorites(favorites, favorites[1]), favorites[1]) # favorites
  /\ SetOf(ToggledFavorites(ToggledFavorites(favorites, favorites[1]), favorites[1]))
       = SetOf(favorites)

\* C5: after every toggle the stored text is a list holding exactly the ids of
\* the in-memory set, and hydrating from it gives that set; a reload of the
\* running page comes up with the favorites it had before.
C5_StorageMirrorsFavorites ==
  [][ /\ lastEvent' \in ToggleEvents =>
           /\ ParseJSON(storedFavorites').kind = "array"
           /\ SetOf(ParseJSON(storedFavorites').val) = SetOf(favorites')
           /\ HydrateFavorites(storedFavorites').ok
           /\ HydrateFavorites(storedFavorites').set = favorites'
      /\ (pc = "running" /\ lastEvent' = "reload") =>
           pc' = "running" /\ favorites' = favorites
    ]_vars

\* C5 witness: a reloaded page that holds "3", toggled on before the reload
\* on top of the favorite the storage started with.
C5_Witness ==
  /\ lastEvent = "reload"
  /\ pc = "running"
  /\ favorites = <<"8", "3">>
  /\ storedFavorites = Stringify(<<"8", "3">>)

\* C6: when the favorites key is missing or holds no valid serialized list,
\* the page comes up running with an empty favorites set and the first page
\* of the grid rendered.
C6_StartupToleratesCorruptFavorites ==
  (lastEvent \in {"init", "reload"} /\ ParseJSON(storedFavorites).kind # "array") =>
    /\ pc = "running"
    /\ favorites = <<>>
    /\ Len(gallery) = Min(PAGE_SIZE, Len(IMAGES))

\* C7: over a list of n >= 1 images with the selection in range, next goes
\* from n-1 to 0 and otherwise one up, prev goes from 0 to n-1 and otherwise
\* one down, both stay at 0 when n = 1, and prev undoes next.
C7_NavigationIsCircular ==
  [][ LET n == Len(filteredList)
      IN  (n >= 1 /\ currentIndex \in 0..(n - 1)) =>
            /\ lastEvent' \in {"next", "tick"} =>
                 /\ currentIndex' = IF currentIndex = n - 1 THEN 0 ELSE currentIndex + 1
                 /\ PrevIndex(currentIndex', n) = currentIndex
                 /\ lightboxImage' = filteredList[currentIndex' + 1]
            /\ lastEvent' = "prev" =>
                 /\ currentIndex' = IF currentIndex = 0 THEN n - 1 ELSE currentIndex - 1
                 /\ NextIndex(currentIndex', n) = currentIndex
                 /\ lightboxImage' = filteredList[currentIndex' + 1]
            /\ (n = 1 /\ lastEvent' \in {"next", "prev", "tick"}) => currentIndex' = 0
    ]_vars

\* C7 witness: next has just wrapped from the last image of a list of several
\* to the first one, in the open lightbox.
C7_Witness ==
  /\ lastEvent = "next"
  /\ lightboxActive
  /\ Len(filteredList) > 1
  /\ currentIndex = 0
  /\ lightboxImage = filteredList[1]

\* C8: after every operation that renders the grid, the load-more button is
\* displayed iff fewer items are rendered than the filtered list holds.
C8_LoadMoreIffMoreRemain ==
  (pc = "running" /\ lastEvent \in RenderEvents) =>
    (loadMoreBtn <=> Len(gallery) < Len(filteredList))

\* C8 witness: a load-more click rendered the last page and hid the button.
C8_Witness ==
  /\ lastEvent = "loadMore"
  /\ ~loadMoreBtn
  /\ Len(gallery) = Len(filteredList)
  /\ Len(gallery) > PAGE_SIZE

\* The grid is the prefix of filteredList that the page cursor covers, and
\* every item's captured index is its position in filteredList.
GridIsPrefix ==
  pc = "running" =>
    /\ Len(gallery) = Min(currentPage * PAGE_SIZE, Len(filteredList))
    /\ \A k \in DOMAIN gallery :
         /\ gallery[k].id = filteredList[k]
         /\ gallery[k].index = k - 1
         /\ ItemAt(filteredList, gallery[k].index) = gallery[k].id

\* C9: the grid is always that prefix, and a render-next-page call appends
\* exactly min(PAGE_SIZE, remaining) items after the ones already there.
C9_GridIsPrefixOfFilteredList ==
  /\ []GridIsPrefix
  /\ [][ lastEvent' \in {"loadMore", "sentinel"} =>
           /\ Len(gallery') - Len(gallery) =
                Min(PAGE_SIZE, Len(filteredList) - Len(gallery))
           /\ SubSeq(gallery', 1, Len(gallery)) = gallery
       ]_vars

\* C9 witness: a second page was appended; its last item is the last image of
\* the list and carries that position.
C9_Witness ==
  /\ lastEvent \in {"loadMore", "sentinel"}
  /\ currentPage = 2
  /\ Len(gallery) > PAGE_SIZE
  /\ gallery[Len(gallery)].index = Len(filteredList) - 1
  /\ gallery[Len(gallery)].id = filteredList[Len(filteredList)]

\* needle occurs in hay at some offset.
OccursIn(needle, hay) ==
  \E off \in 0..(Len(hay) - Len(needle)) :
    \A j \in 1..Len(needle) : hay[off + j] = needle[j]

\* Catalog entry k matches the active category and the search text.
EntryMatches(k) ==
  LET img  == IMAGES[k]
      text == ToLowerCase(img.title \o <<32>> \o img.description \o <<32>> \o img.category)
      q    == ToLowerCase(Trim(searchValue))
  IN  /\ activeCategory = CatAll \/ img.category = activeCategory
      /\ q = <<>> \/ OccursIn(q, text)

\* C10: after every recompute, filteredList holds each matching catalog entry
\* exactly once and nothing else.
C10_FilteredListIsExactlyTheMatches ==
  (pc = "running" /\ lastEvent \in RecomputeEvents) =>
    /\ \A k \in DOMAIN IMAGES :
         Cardinality({i \in DOMAIN filteredList : filteredList[i] = IMAGES[k].id})
           = IF EntryMatches(k) THEN 1 ELSE 0
    /\ \A i \in DOMAIN filteredList : filteredList[i] \in Ids

\* C10 witness: the debounced search for " City " under a category filter
\* that keeps "City Sunrise" and drops other entries.
C10_Witness ==
  /\ lastEvent = "searchDebounce"
  /\ searchValue = <<32,67,105,116,121,32>>
  /\ activeCategory = CatArchitecture
  /\ filteredList = <<"3">>

\* ---------------------------------------------------------------------------
\* Sorting.

\* Position of a record in the Catalog.
CatalogPos(imgId) == CHOOSE i \in DOMAIN IMAGES : IMAGES[i].id = imgId

\* Calendar order of two <<year, month, day>> dates.
DateBefore(d, e) ==
  \/ d[1] < e[1]
  \/ d[1] = e[1] /\ d[2] < e[2]
  \/ d[1] = e[1] /\ d[2] = e[2] /\ d[3] < e[3]

\* a may stand before b in a list sorted by the mode: strictly by the key,
\* and by Catalog position when the keys are equal (or the mode has no key).
StandsBefore(sortBy, a, b) ==
  LET catalog == CatalogPos(a.id) < CatalogPos(b.id)
  IN  CASE sortBy = "newest" ->
             DateBefore(b.date, a.date) \/ (a.date = b.date /\ catalog)
        [] sortBy = "oldest" ->
             DateBefore(a.date, b.date) \/ (a.date = b.date /\ catalog)
        [] sortBy = "popular" ->
             a.popularity > b.popularity
               \/ (a.popularity = b.popularity /\ catalog)
        [] sortBy = "name" ->
             LocaleCompare(a.title, b.title) < 0
               \/ (LocaleCompare(a.title, b.title) = 0 /\ catalog)
        [] OTHER -> catalog

\* C11: the filtered list is always ordered by the selected sort mode (date
\* descending for newest, date ascending for oldest, popularity descending
\* for popular, title for name); entries with equal keys keep their Catalog
\* order, and under an unrecognized mode the whole list is in Catalog order.
C11_SortFollowsModeAndIsStable ==
  \A i, j \in DOMAIN filteredList :
    i < j => StandsBefore(sortValue, FindImage(filteredList[i]),
                          FindImage(filteredList[j]))

\* A sort change to the unrecognized mode with the whole Catalog listed: all
\* keys compare equal, so only stability fixes the order.
C11_Witness ==
  /\ lastEvent = "sort"
  /\ sortValue = "custom"
  /\ Len(filteredList) = Len(IMAGES)

\* ---------------------------------------------------------------------------
\* Out-of-range navigation.

\* C12: a request to open the lightbox at an index outside the filtered list
\* (the sidebar's fallback to 0 over the empty list) leaves currentIndex and
\* the lightbox's open or closed state as they were, and next and previous
\* over the empty list leave currentIndex as it was.
C12_OutOfRangeNavigationIsNoOp ==
  [][ /\ (lastEvent' = "sidebarOpen" /\ filteredList = <<>>)
           => UNCHANGED <<currentIndex, lightboxActive, lightboxImage>>
      /\ (lastEvent' \in {"next", "prev"} /\ filteredList = <<>>)
           => currentIndex' = currentIndex ]_vars

\* A sidebar image was clicked over the empty list while the lightbox was
\* closed, and it stayed closed.
C12_Witness ==
  /\ lastEvent = "sidebarOpen"
  /\ filteredList = <<>>
  /\ favoritesList # <<>>
  /\ ~lightboxActive

\* ---------------------------------------------------------------------------
\* The lightbox index.

\* C13: whenever the lightbox is open, currentIndex is a position of the
\* current filtered list, that is, within 0 .. length - 1.
C13_OpenLightboxIndexInRange ==
  lightboxActive => (0 <= currentIndex /\ currentIndex < Len(filteredList))

\* ---------------------------------------------------------------------------
\* Growth of the grid.

\* The events that change the filter: category, search text or sort mode.
FilterChangeEvents == {"filter", "searchDebounce", "sort"}

\* C14: no event other than a filter change (or a reload of the page) takes
\* rendered items away or moves the page cursor back: the items rendered
\* before the event are still rendered, in place, after it.
C14_GridGrowsAppendOnly ==
  [][ lastEvent' \notin (FilterChangeEvents \cup {"reload"})
        => /\ Len(gallery') >= Len(gallery)
           /\ \A k \in DOMAIN gallery : gallery'[k].id = gallery[k].id
           /\ currentPage' >= currentPage ]_vars

\* ---------------------------------------------------------------------------
\* The search debounce.

\* C15: at most one debounce timeout is pending.  A keystroke leaves exactly
\* its own timeout pending and recomputes nothing; the timeout's firing
\* leaves none pending and recomputes the list from the search text of that
\* moment, so a burst of keystrokes causes one recompute.  A pending timeout
\* leads to that recompute unless a later keystroke replaces it.
C15_DebounceCancelAndReplace ==
  /\ [](Cardinality(timeouts) <= 1)
  /\ [][ lastEvent' = "searchInput"
           => /\ timeouts' = {searchDeb'}
              /\ searchDeb' \notin timeouts
              /\ UNCHANGED gridVars ]_vars
  /\ [][ lastEvent' = "searchDebounce"
           => /\ timeouts' = {}
              /\ UNCHANGED searchValue
              /\ filteredList' =
                   applyFiltersSearchSort(activeCategory, searchValue', sortValue) ]_vars
  /\ \A id \in 1..MaxTimerId :
       (id \in timeouts) ~>
          (lastEvent = "searchDebounce" \/ (timeouts # {} /\ id \notin timeouts))

\* The timeout of the second keystroke of a burst fired: the first one had
\* been cancelled, and the list was recomputed once, from the later text.
C15_Witness ==
  /\ lastEvent = "searchDebounce"
  /\ searchDeb = 2
  /\ timeouts = {}
  /\ searchValue = <<122,122,122>>
  /\ filteredList = <<>>

\* ---------------------------------------------------------------------------
\* The slideshow timer.

\* C16: at most one slideshow timer exists, it is the one slideshowInterval
\* holds, and the slideshow button shows "pause" exactly while it runs.  A
\* toggle starts a timer when none runs and cancels the running one
\* otherwise; closing the lightbox with no timer running changes nothing of
\* the slideshow.
C16_SlideshowToggling ==
  /\ [](/\ Cardinality(intervals) <= 1
        /\ intervals = (IF slideshowInterval = 0 THEN {} ELSE {slideshowInterval})
        /\ slideshowBtnActive <=> (intervals # {}))
  /\ [][ lastEvent' \in StartEvents
           => IF slideshowInterval = 0
              THEN slideshowInterval' # 0 /\ intervals' = {slideshowInterval'}
              ELSE slideshowInterval' = 0 /\ intervals' = {} ]_vars
  /\ [][ (lastEvent' \in CloseEvents /\ slideshowInterval = 0)
           => UNCHANGED slideshowVars ]_vars

\* The slideshow button cancelled the running timer of an open lightbox.
C16_Witness ==
  /\ lastEvent = "slideshowButton"
  /\ lastStopped
  /\ lightboxActive
  /\ intervals = {}
  /\ ~slideshowBtnActive

\* ---------------------------------------------------------------------------
\* Opening from the sidebar.

\* C17: a click on a sidebar image over a non-empty filtered list opens the
\* lightbox on that image, at the position the image has in the list at the
\* time of the click, when the list holds it, and at position 0 otherwise.
C17_SidebarOpensAtCurrentPosition ==
  [][ (lastEvent' = "sidebarOpen" /\ filteredList # <<>>)
        => \E r \in DOMAIN favoritesList :
             /\ lightboxActive'
             /\ IF \E k \in DOMAIN filteredList : filteredList[k] = favoritesList[r]
                THEN /\ filteredList[currentIndex' + 1] = favoritesList[r]
                     /\ lightboxImage' = favoritesList[r]
                ELSE /\ currentIndex' = 0
                     /\ lightboxImage' = filteredList[1] ]_vars

\* The favorite was opened from the sidebar at position 1 of the list sorted
\* oldest first; the sidebar had been rendered under the newest-first list,
\* where the image stood at position 7.
C17_Witness ==
  /\ lastEvent = "sidebarOpen"
  /\ lightboxActive
  /\ sortValue = "oldest"
  /\ activeCategory = CatAll
  /\ currentIndex = 1
  /\ lightboxImage = "3"
  /\ filteredList[2] = "3"

\* ---------------------------------------------------------------------------
\* The favorite button of a grid item.

\* Ids in exactly one of two favorite sequences.
Changed(favs, favs2) ==
  {id \in Ids : Has(favs, id) # Has(favs2, id)}

\* The lightbox, the list, the page cursor and the rendered items are as they
\* were: the enclosing item's open action did not run.
GridFavoriteFrame ==
  /\ UNCHANGED <<lightboxActive, currentIndex, filteredList, currentPage>>
  /\ Len(gallery') = Len(gallery)
  /\ \A k \in DOMAIN gallery : gallery'[k].id = gallery[k].id

\* C18: the favorite button of a grid item, clicked, toggles the membership
\* of that item only and redraws the heart of that item only; activated by
\* pointer or by keyboard, it leaves the lightbox's open or closed state,
\* currentIndex, the filtered list, the page cursor and the set of rendered
\* items as they were.
C18_GridFavoriteHasNoOtherEffect ==
  [][ /\ lastEvent' = "gridFavorite"
        => /\ GridFavoriteFrame
           /\ \E k \in DOMAIN gallery :
                /\ Changed(favorites, favorites') = {gallery[k].id}
                /\ \A j \in DOMAIN gallery :
                     j # k => gallery'[j].heart = gallery[j].heart
                /\ gallery'[k].heart = Has(favorites', gallery[k].id)
      /\ lastEvent' = "gridFavoriteKey" => GridFavoriteFrame ]_vars

\* ---------------------------------------------------------------------------
\* The theme.

\* The theme the page shows: dark with the attribute, light without it.
AppliedTheme(attr) == IF attr = "dark" THEN "dark" ELSE "light"

\* C19: a theme toggle switches the applied theme to the other one and stores
\* the theme it switched to, so that a second toggle restores the first theme;
\* a reload that follows a toggle applies the stored, toggled theme; no event
\* other than the toggle changes the applied or the stored theme.
C19_ThemeToggleOnlyAndPersisted ==
  [][ /\ lastEvent' = "themeToggle"
        => /\ AppliedTheme(dataTheme') # AppliedTheme(dataTheme)
           /\ storedTheme' = AppliedTheme(dataTheme')
      /\ (lastEvent = "themeToggle" /\ lastEvent' = "reload")
        => /\ AppliedTheme(dataTheme') = storedTheme
           /\ dataTheme' = dataTheme
      /\ lastEvent' # "themeToggle" => UNCHANGED <<dataTheme, storedTheme>> ]_vars

\* A toggle switched the page from dark to light: the attribute is gone and
\* "light", which only the toggle writes, is stored.
C19_Witness ==
  /\ lastEvent = "themeToggle"
  /\ storedTheme = "light"
  /\ dataTheme = "none"
  /\ themeIcon = "moon"

\* ---------------------------------------------------------------------------
\* Download.

\* What a download leaves alone: favorites, the filtered list, currentIndex,
\* the page cursor, the lightbox and the slideshow.
DownloadFrame ==
  UNCHANGED <<favVars, filteredList, currentPage, gallery, lightboxVars, slideshowVars>>

\* C20: a download click records the image selected at that moment and
\* returns, so other events run while the fetch is pending; when the fetch
\* ends, the file saved (success) or the URL opened with its notice
\* (failure) is that of the recorded image, whatever is selected by then;
\* the click and both endings leave favorites, the filtered list,
\* currentIndex, the page cursor, the lightbox and the slideshow as they
\* were, and the failure ends in the fallback, never unhandled.
C20_DownloadIsIndependent ==
  [][ /\ lastEvent' = "download"
        => /\ DownloadFrame
           /\ UNCHANGED downloadOutcome
           /\ downloads' =
                (IF ItemAt(filteredList, currentIndex) = NoImg THEN downloads
                 ELSE Append(downloads, ItemAt(filteredList, currentIndex)))
      /\ lastEvent' \in {"downloadSaved", "downloadOpened"}
        => /\ DownloadFrame
           /\ pc' = "running"
           /\ \E d \in DOMAIN downloads :
                /\ downloads' = RemoveAt(downloads, d)
                /\ downloadOutcome'.img = downloads[d]
                /\ downloadOutcome'.kind =
                     (IF lastEvent' = "downloadSaved" THEN "saved" ELSE "opened")
                /\ downloadOutcome'.toast # "" ]_vars

\* A download invoked on image 8 failed after the user had moved on to image
\* 5: the URL opened is that of image 8.
C20_Witness ==
  /\ lastEvent = "downloadOpened"
  /\ downloadOutcome.kind = "opened"
  /\ downloadOutcome.img = "8"
  /\ lightboxActive
  /\ ItemAt(filteredList, currentIndex) = "5"

\* ---------------------------------------------------------------------------
\* The image the lightbox displays.

\* C21: while the lightbox is open, the image it displays is the entry of the
\* filtered list at currentIndex, the one its favorite button toggles.
C21_LightboxShowsCurrentEntry ==
  lightboxActive => lightboxImage = ItemAt(filteredList, currentIndex)

\* ---------------------------------------------------------------------------
\* A freshly opened lightbox.

\* C22: the state reached when one event has moved the lightbox from closed
\* to open has no slideshow timer active, and that event did not also toggle
\* the slideshow: it left the timer and the slideshow button as they were.
C22_FreshlyOpenedIsNotPlaying ==
  [][ (~lightboxActive /\ lightboxActive')
        => /\ slideshowInterval' = 0
           /\ intervals' = {}
           /\ UNCHANGED slideshowVars ]_vars

=============================================================================
